---- MODULE Spec2Model ----
(***************************************************************************)
(* A model of the Quotation-System repository:                             *)
(*   - src/api/index.py: the Flask endpoint /api/generate, the lazy load   *)
(*     of the master price list into QuotationSystem.catalog, get_quote;   *)
(*   - src/app.py: the Streamlit application: load_data_from_files, the    *)
(*     session cart (Add / delete / Clear Cart) and the cart preview;      *)
(*   - src/data/convert_data.py: clean_price, clean_coil and               *)
(*     process_master_file, which rewrites the master price list.          *)
(*                                                                         *)
(* Text is modelled as a sequence of one-character strings, so substring   *)
(* tests, str.upper(), str.strip() and regular-expression search are       *)
(* computed and not assumed.  A spreadsheet cell is a tagged record: text, *)
(* number or NaN (an empty cell).  Python floats are modelled as exact     *)
(* decimals: an amount is an integer count of 1/100 (suffix 100) or of     *)
(* 1/10000 (suffix 4) of a currency unit.                                  *)
(***************************************************************************)
EXTENDS Integers, Sequences, FiniteSets, TLC

VARIABLES
    workbook,          \* api: data/MASTER PRICE LIST.xlsx as found on disk
    quotation_system,  \* api: the module global: "None" or "QuotationSystem"
    catalog,           \* api: QuotationSystem.catalog, a sequence of entries
    request,           \* api: the JSON body of the last /api/generate request
    response,          \* api: the answer to the last /api/generate request
    data_dir,          \* app: the workbooks found in DATA_DIR
    app_catalog,       \* app: the cached result of load_data_from_files()[0]
    logs,              \* app: the cached result of load_data_from_files()[1]
    cart,              \* app: st.session_state['cart']
    grand_tot,         \* app: the preview's grand_tot of the last script run
    line_tots,         \* app: the preview's tot of each line, last script run
    total_amt,         \* app: total_amt of the document the last script run made, or 0
    ui,                \* app: the widget values of the last script run
    raw_val,             \* cleaners: the raw cell value handed to the cleaners
    cleaned,           \* cleaners: what each cleaner returned for raw_val
    master,            \* converter: MASTER PRICE LIST.xlsx as process_master_file finds it
    fixed,             \* converter: the sheets written to data/FIXED_MASTER_LIST.xlsx
    prints,            \* converter: the outcome line process_master_file printed for each sheet
    mapping            \* converter: header_idx, desc_col, price_col and uom of each sheet visited

vars == <<workbook, quotation_system, catalog, request, response,
          data_dir, app_catalog, logs, cart, grand_tot, line_tots,
          total_amt, ui, raw_val, cleaned, master, fixed, prints,
          mapping>>

api_vars == <<workbook, quotation_system, catalog, request, response>>
app_vars == <<data_dir, app_catalog, logs, cart, grand_tot, line_tots,
              total_amt, ui>>
conv_vars == <<raw_val, cleaned, master, fixed, prints, mapping>>

(***************************************************************************)
(* Bounds of the model.                                                    *)
(***************************************************************************)
MaxItems == 2      \* items in one /api/generate request
MaxSheets == 2     \* sheets in the master price list of the load runs
MaxCart == 2       \* lines the session cart holds

(***************************************************************************)
(* Cells and text.                                                         *)
(***************************************************************************)
T(s) == [t |-> "s", s |-> s, n |-> 0]
N(n) == [t |-> "n", s |-> <<>>, n |-> n]
NaN == [t |-> "nan", s |-> <<>>, n |-> 0]
Absent == [t |-> "absent", s |-> <<>>, n |-> 0]

isna(c) == c.t = "nan"

Lowers == <<"a","b","c","d","e","f","g","h","i","j","k","l","m","n","o","p","q","r","s","t","u","v","w","x","y","z">>
Uppers == <<"A","B","C","D","E","F","G","H","I","J","K","L","M","N","O","P","Q","R","S","T","U","V","W","X","Y","Z">>
Digits == <<"0","1","2","3","4","5","6","7","8","9">>

\* str.upper() and str.lower() of one character
UpperOf == [c \in {Lowers[i] : i \in 1..Len(Lowers)} |->
               Uppers[CHOOSE i \in 1..Len(Lowers) : Lowers[i] = c]]
LowerOf == [c \in {Uppers[i] : i \in 1..Len(Uppers)} |->
               Lowers[CHOOSE i \in 1..Len(Uppers) : Uppers[i] = c]]

upper_char(c) == IF c \in DOMAIN UpperOf THEN UpperOf[c] ELSE c

lower_char(c) == IF c \in DOMAIN LowerOf THEN LowerOf[c] ELSE c

upper(s) == [i \in 1..Len(s) |-> upper_char(s[i])]

\* kw in s
In(kw, s) ==
    \E k \in 0..(Len(s) - Len(kw)) : SubSeq(s, k + 1, k + Len(kw)) = kw

RECURSIVE lstrip(_)
lstrip(s) == IF s # <<>> /\ Head(s) = " " THEN lstrip(Tail(s)) ELSE s

RECURSIVE rstrip(_)
rstrip(s) ==
    IF s # <<>> /\ s[Len(s)] = " " THEN rstrip(SubSeq(s, 1, Len(s) - 1)) ELSE s

strip(s) == rstrip(lstrip(s))

RECURSIVE NatStr(_)
NatStr(n) ==
    IF n < 10 THEN <<Digits[n + 1]>>
    ELSE NatStr(n \div 10) \o <<Digits[(n % 10) + 1]>>

\* str(x) of a cell value; a NaN prints as "nan"
str(c) ==
    IF c.t = "s" THEN c.s
    ELSE IF c.t = "n" THEN (IF c.n < 0 THEN <<"-">> \o NatStr(-c.n) ELSE NatStr(c.n))
    ELSE <<"n","a","n">>

IsDigits(s) ==
    /\ s # <<>>
    /\ \A i \in 1..Len(s) : \E d \in 1..Len(Digits) : Digits[d] = s[i]

DigitVal(ch) == (CHOOSE d \in 1..Len(Digits) : Digits[d] = ch) - 1

RECURSIVE ParseNat(_)
ParseNat(s) ==
    IF s = <<>> THEN 0
    ELSE 10 * ParseNat(SubSeq(s, 1, Len(s) - 1)) + DigitVal(s[Len(s)])

\* " ".join(parts)
RECURSIVE join(_)
join(parts) ==
    IF parts = <<>> THEN <<>>
    ELSE IF Len(parts) = 1 THEN parts[1]
    ELSE parts[1] \o <<" ">> \o join(Tail(parts))

\* next((x for x in seq if P(x)), None), given the positions that satisfy P:
\* the first of them, 0 for None
First(positions) ==
    IF positions = {} THEN 0
    ELSE CHOOSE i \in positions : \A j \in positions : i <= j

(***************************************************************************)
(* pandas.read_excel: the DataFrame of a sheet read with skiprows = k.     *)
(* The first row kept gives the column names: an empty header cell is      *)
(* named "Unnamed: <position>", a repeated name gets the suffix ".<count>".*)
(***************************************************************************)
HeaderName(row, i) ==
    IF isna(row[i]) THEN <<"U","n","n","a","m","e","d",":"," ">> \o NatStr(i - 1) ELSE str(row[i])

Mangle(names, i) ==
    LET earlier == Cardinality({j \in 1..(i - 1) : names[j] = names[i]})
    IN  IF earlier = 0 THEN names[i] ELSE names[i] \o <<".">> \o NatStr(earlier)

read_excel(sheet, skiprows) ==
    LET rows == sheet.rows
        hdr == rows[skiprows + 1]
        raw == [i \in 1..Len(hdr) |-> HeaderName(hdr, i)]
    IN  IF skiprows >= Len(rows) THEN [columns |-> <<>>, data |-> <<>>]
        ELSE [columns |-> [i \in 1..Len(hdr) |-> Mangle(raw, i)],
              data |-> SubSeq(rows, skiprows + 2, Len(rows))]

\* df[name]: the position of the column called name, 0 when there is none (KeyError)
ColIndex(df, name) == First({i \in 1..Len(df.columns) : df.columns[i] = name})

(***************************************************************************)
(* src/api/index.py: QuotationSystem, the catalog load.                    *)
(* An operation that may raise returns [raised, catalog]: the catalog is   *)
(* the one the exception leaves behind.                                    *)
(***************************************************************************)
NROWS == 50
GST_RATE == 18

Wires == {"RR Wires", "LAPP Wires"}

\* row_str = " ".join([str(x) for x in row if pd.notna(x)])
RECURSIVE row_str_parts(_)
row_str_parts(row) ==
    IF row = <<>> THEN <<>>
    ELSE (IF isna(Head(row)) THEN <<>> ELSE <<str(Head(row))>>)
         \o row_str_parts(Tail(row))

row_str(row) == join(row_str_parts(row))

\* the category one row of the raw sheet gives, "None" when it gives none
row_category(rs, sheet_name) ==
    IF In(<<"3","3"," ","K","V">>, rs) /\ In(<<"L","P">>, rs) THEN "HT Cables"
    ELSE IF In(<<"C","o","p","p","e","r"," ","A","r","m","o","d">>, rs) /\ In(<<"L","P">>, rs) THEN "Copper Armoured"
    ELSE IF In(<<"A","l","l","u","m","i","n","i","u","m"," ","A","r","m","o","d">>, rs) /\ In(<<"L","P">>, rs) THEN "Aluminium Armoured"
    ELSE IF In(<<"C","o","d","e">>, rs) /\ In(<<"P","r","i","c","e">>, rs) THEN "Cosmos Glands"
    ELSE IF In(<<"S","u","i","t","a","b","l","e"," ","C","a","b","l","e"," ","O","D">>, rs) THEN "HMI Glands"
    ELSE IF In(<<"I","t","e","m"," ","D","e","s","c","r","i","p","t","i","o","n">>, rs) /\ In(<<"L","P">>, rs)
         THEN IF In(<<"R","R">>, rs) \/ In(<<"R","R">>, upper(sheet_name)) THEN "RR Wires"
              ELSE IF In(<<"L","A","P","P">>, rs) \/ In(<<"L","A","P","P">>, upper(sheet_name)) THEN "LAPP Wires"
              ELSE "None"
    ELSE "None"

\* the rows of df_raw (header=None, nrows=50) that give a category, 0-based
category_rows(sheet) ==
    {i \in 0..(Len(sheet.rows) - 1) :
        /\ i < NROWS
        /\ row_category(row_str(sheet.rows[i + 1]), sheet.name) # "None"}

\* header_row_idx: the first row that gives a category, -1 when no row does
header_row_idx(sheet) ==
    IF category_rows(sheet) = {} THEN -1
    ELSE CHOOSE i \in category_rows(sheet) : \A j \in category_rows(sheet) : i <= j

\* the cell of column position col in a data row (short rows read as empty)
Cell(row, col) == IF col <= Len(row) THEN row[col] ELSE NaN

add_cat(cat_in, df, name_col, price_col, cat) ==
    LET ni == ColIndex(df, name_col)
        pi == ColIndex(df, price_col)
        disc == First({i \in 1..Len(df.columns) :
                          In(<<"D","I","S","C">>, df.columns[i]) \/ In(<<"D","i","s","c","o","u","n","t">>, df.columns[i])})
        temp == [r \in 1..Len(df.data) |->
                    [Item_Name |-> Cell(df.data[r], ni),
                     List_Price |-> Cell(df.data[r], pi),
                     Standard_Discount |->
                         IF disc # 0 THEN Cell(df.data[r], disc) ELSE N(0),
                     Category |-> cat,
                     GST_Rate |-> GST_RATE]]
    IN  IF ni = 0 \/ pi = 0
        THEN [raised |-> TRUE, catalog |-> cat_in]            \* KeyError
        ELSE [raised |-> FALSE, catalog |-> cat_in \o temp]

\* never raises: every exception is swallowed and leaves the catalog as it was
process_hmi(cat_in, df) ==
    LET cols == df.columns
        size == First({i \in 1..Len(cols) :
                          In(<<"S","i","z","e"," ","(","M","M",")">>, cols[i]) /\ ~In(<<".","1">>, cols[i])})
        rate == First({i \in 1..Len(cols) :
                          In(<<"R","A","T","E"," ","P","E","R"," ","P","C","S">>, cols[i]) /\ ~In(<<".","1">>, cols[i])})
        temp == [r \in 1..Len(df.data) |->
                    [Item_Name |-> T(<<"H","M","I"," ","S","i","n","g","l","e"," ">> \o str(Cell(df.data[r], size))),
                     List_Price |-> Cell(df.data[r], rate),
                     Standard_Discount |-> Cell(df.data[r], rate + 1),
                     Category |-> "HMI Glands",
                     GST_Rate |-> GST_RATE]]
    IN  IF size = 0 \/ rate = 0 THEN cat_in                   \* StopIteration
        ELSE IF rate + 1 > Len(cols) THEN cat_in              \* IndexError
        ELSE cat_in \o temp

process_sheet(cat_in, sheet) ==
    LET idx == header_row_idx(sheet)
        category == row_category(row_str(sheet.rows[idx + 1]), sheet.name)
        df == read_excel(sheet, idx)
        cols == [i \in 1..Len(df.columns) |-> strip(df.columns[i])]
        dfs == [df EXCEPT !.columns = cols]
        lp == First({i \in 1..Len(cols) :
                        cols[i] \in {<<"L","P">>, <<"C","O","I","L"," ","L","P">>, <<"L","P"," ","P","E","R"," ","M","T","R">>}})
        item == First({i \in 1..Len(cols) :
                          In(<<"3","3"," ","K","V">>, cols[i]) \/ In(<<"A","r","m","o","d">>, cols[i])})
    IN  IF ~sheet.readable THEN [raised |-> FALSE, catalog |-> cat_in]
        ELSE IF idx = -1 THEN [raised |-> FALSE, catalog |-> cat_in]
        ELSE IF category = "HMI Glands"
             THEN [raised |-> FALSE, catalog |-> process_hmi(cat_in, dfs)]
        ELSE IF category = "Cosmos Glands"
             THEN add_cat(cat_in, dfs, <<"C","o","d","e">>, <<"P","r","i","c","e">>, category)
        ELSE IF category \in Wires
             THEN IF lp # 0
                  THEN add_cat(cat_in, dfs, <<"I","t","e","m"," ","D","e","s","c","r","i","p","t","i","o","n">>, cols[lp], category)
                  ELSE [raised |-> FALSE, catalog |-> cat_in]
        ELSE IF item # 0
             THEN add_cat(cat_in, dfs, cols[item], <<"L","P">>, category)
        ELSE [raised |-> FALSE, catalog |-> cat_in]

\* for sheet in xls.sheet_names: self.process_sheet(xls, sheet), up to the
\* first exception
RECURSIVE process_sheets(_, _)
process_sheets(cat_in, sheets) ==
    IF sheets = <<>> THEN [raised |-> FALSE, catalog |-> cat_in]
    ELSE LET one == process_sheet(cat_in, Head(sheets))
         IN  IF one.raised THEN one
             ELSE process_sheets(one.catalog, Tail(sheets))

\* pd.to_numeric(x, errors='coerce') of one cell
to_numeric(c) ==
    IF c.t = "n" THEN c
    ELSE IF c.t = "s" /\ IsDigits(strip(c.s)) THEN N(ParseNat(strip(c.s)))
    ELSE NaN

\* catalog['List Price'] = to_numeric(...); catalog.dropna(subset=['List Price'])
RECURSIVE dropna_List_Price(_)
dropna_List_Price(cat_in) ==
    IF cat_in = <<>> THEN <<>>
    ELSE LET e == Head(cat_in)
             p == to_numeric(e.List_Price)
         IN  (IF isna(p) THEN <<>> ELSE <<[e EXCEPT !.List_Price = p]>>)
             \o dropna_List_Price(Tail(cat_in))

\* load_data on a fresh QuotationSystem: [success, catalog]
load_data(wb) ==
    LET done == process_sheets(<<>>, wb.sheets)
    IN  IF ~wb.exists THEN [success |-> FALSE, catalog |-> <<>>]
        ELSE IF done.raised THEN [success |-> FALSE, catalog |-> done.catalog]
        ELSE [success |-> TRUE, catalog |-> dropna_List_Price(done.catalog)]

(***************************************************************************)
(* src/api/index.py: get_quote and the route handler.                      *)
(*                                                                         *)
(* Series.str.contains(name, case=False, na=False) searches each           *)
(* description for the REGULAR EXPRESSION name (regex=True is the pandas   *)
(* default), ignoring case.  The patterns of the model are made of         *)
(* ordinary characters, "." (any one character) and the group brackets     *)
(* "(" and ")": a pattern whose brackets do not balance does not compile   *)
(* (re.error), and a group without a quantifier matches what its content   *)
(* matches.                                                                *)
(***************************************************************************)
GST_PCT == 18

\* the bracket depth after reading pat from depth d, -1 when a ")" closes nothing
RECURSIVE re_depth(_, _)
re_depth(pat, d) ==
    IF pat = <<>> THEN d
    ELSE IF Head(pat) = "(" THEN re_depth(Tail(pat), d + 1)
    ELSE IF Head(pat) = ")" THEN (IF d = 0 THEN -1 ELSE re_depth(Tail(pat), d - 1))
    ELSE re_depth(Tail(pat), d)

\* re.compile(pat) succeeds
re_compiles(pat) == re_depth(pat, 0) = 0

\* the atoms of a compiled pattern, its group brackets dropped
RECURSIVE re_atoms(_)
re_atoms(pat) ==
    IF pat = <<>> THEN <<>>
    ELSE (IF Head(pat) \in {"(", ")"} THEN <<>> ELSE <<Head(pat)>>)
         \o re_atoms(Tail(pat))

re_atom_matches(a, ch) == a = "." \/ lower_char(a) = lower_char(ch)

\* re.search(pat, s, re.IGNORECASE) is not None, for a pattern that compiles
re_search(pat, s) ==
    LET atoms == re_atoms(pat)
    IN  \E k \in 0..(Len(s) - Len(atoms)) :
            \A i \in 1..Len(atoms) : re_atom_matches(atoms[i], s[k + i])

\* the positions of the catalog rows the mask keeps
matches(cat_in, name) ==
    {i \in 1..Len(cat_in) : re_search(name, str(cat_in[i].Item_Name))}

\* bool(x) of a JSON value: None, 0 and "" are false
truthy(v) ==
    IF v.t = "n" THEN v.n # 0
    ELSE IF v.t = "s" THEN v.s # <<>>
    ELSE FALSE

\* float(x) of a JSON value that is a number or text: raises ValueError on
\* text that is not a number
float_raises(v) == v.t = "s" /\ ~IsDigits(strip(v.s))

float(v) == IF v.t = "n" THEN v.n ELSE ParseNat(strip(v.s))

\* round(x / d) to the nearest integer, ties to even (d > 0)
round_div(x, d) ==
    LET q == x \div d
        r == x % d
    IN  IF 2 * r < d THEN q
        ELSE IF 2 * r > d THEN q + 1
        ELSE IF q % 2 = 0 THEN q ELSE q + 1

\* net = lp * (1 - disc/100), a count of 1/10000
net_rate4(lp, disc) == lp * (100 - disc) * 100

\* gst = net * 0.18; total = (net + gst) * qty, a count of 1/10000
line_total4_untaxed(lp, disc, qty) == net_rate4(lp, disc) * qty

line_total4(lp, disc, qty) ==
    LET net4 == net_rate4(lp, disc)
        gst4 == (net4 * GST_PCT) \div 100
    IN  (net4 + gst4) * qty

\* One pass of the loop body of get_quote: [raised, line].
\* ListPrice, NetRate and Total are counts of 1/100, as round(x, 2) gives them;
\* a number computed from a NaN is NaN.
quote_item(cat_in, item, disc_override) ==
    LET name == item.name
        qv == IF item.qty.t = "absent" THEN N(0) ELSE item.qty
        qty == float(qv)
        m == matches(cat_in, name)
        prod == cat_in[First(m)]
        use_override == truthy(disc_override)
        disc == IF use_override THEN N(float(disc_override))
                ELSE prod.Standard_Discount
        lp == prod.List_Price
        nan == isna(disc) \/ isna(lp)
        net4 == net_rate4(lp.n, disc.n)
        total4 == line_total4(lp.n, disc.n, qty)
    IN  IF float_raises(qv) THEN [raised |-> TRUE]                    \* ValueError
        ELSE IF ~re_compiles(name) THEN [raised |-> TRUE]             \* re.error
        ELSE IF m = {}
             THEN [raised |-> FALSE,
                   line |-> [Description |-> T(<<"N","O","T"," ","F","O","U","N","D",":"," ">> \o name),
                             Total |-> N(0)]]
        ELSE IF use_override /\ float_raises(disc_override)
             THEN [raised |-> TRUE]                                   \* ValueError
        ELSE IF disc.t = "s" \/ lp.t = "s" THEN [raised |-> TRUE]     \* TypeError
        ELSE [raised |-> FALSE,
              line |-> [Description |-> prod.Item_Name,
                        Qty |-> qty,
                        ListPrice |-> IF isna(lp) THEN NaN ELSE N(lp.n * 100),
                        Discount |-> disc,
                        NetRate |-> IF nan THEN NaN ELSE N(round_div(net4, 100)),
                        Total |-> IF nan THEN NaN ELSE N(round_div(total4, 100))]]

\* get_quote: [raised, results]; an exception in any pass loses every result
RECURSIVE get_quote(_, _, _)
get_quote(cat_in, items, disc_override) ==
    IF items = <<>> THEN [raised |-> FALSE, results |-> <<>>]
    ELSE LET one == quote_item(cat_in, Head(items), disc_override)
             rest == get_quote(cat_in, Tail(items), disc_override)
         IN  IF one.raised \/ rest.raised THEN [raised |-> TRUE, results |-> <<>>]
             ELSE [raised |-> FALSE, results |-> <<one.line>> \o rest.results]

NoResponse == [kind |-> "none", results |-> <<>>]
NoRequest == [items |-> <<>>, discount |-> Absent]

\* generate, were get_quote to consume the catalog entry at the head of the
\* catalog on every call (which it does not)
generate_consuming(req) ==
    \E loaded \in {IF quotation_system = "None" THEN load_data(workbook)
                    ELSE [success |-> TRUE, catalog |-> catalog]} :
    \E cat_now \in {loaded.catalog} :
    \E quote \in {get_quote(cat_now, req.items, req.discount)} :
        /\ request' = req
        /\ quotation_system' = "QuotationSystem"
        /\ catalog' = IF cat_now = <<>> THEN cat_now ELSE Tail(cat_now)
        /\ response' = IF quotation_system = "None" /\ ~loaded.success
              THEN [kind |-> "load_failed", results |-> <<>>]
              ELSE IF quote.raised THEN [kind |-> "exception", results |-> <<>>]
              ELSE [kind |-> "quote", results |-> quote.results]
        /\ UNCHANGED workbook
        /\ UNCHANGED app_vars
        /\ UNCHANGED conv_vars

\* POST /api/generate with JSON body req
generate(req) ==
    \E loaded \in {IF quotation_system = "None" THEN load_data(workbook)
                    ELSE [success |-> TRUE, catalog |-> catalog]} :
    \E cat_now \in {loaded.catalog} :
    \E quote \in {get_quote(cat_now, req.items, req.discount)} :
        /\ request' = req
        /\ quotation_system' = "QuotationSystem"
        /\ catalog' = cat_now
        /\ response' =
              IF quotation_system = "None" /\ ~loaded.success
              THEN [kind |-> "load_failed", results |-> <<>>]         \* 500
              ELSE IF quote.raised
              THEN [kind |-> "exception", results |-> <<>>]           \* 500
              ELSE [kind |-> "quote", results |-> quote.results]
        /\ UNCHANGED workbook
        /\ UNCHANGED app_vars
        /\ UNCHANGED conv_vars

(***************************************************************************)
(* The inputs of the api runs: sheets of the master price list, and the    *)
(* items and discounts of the requests.                                    *)
(***************************************************************************)
\* a gland sheet whose header row is found below a title row
CosmosSheet ==
    [name |-> <<"C","O","S","M","O","S">>, readable |-> TRUE,
     rows |-> << <<T(<<"G","l","a","n","d"," ","l","i","s","t">>), NaN, NaN>>,
                 <<T(<<"C","o","d","e">>), T(<<"P","r","i","c","e"," ">>), T(<<"D","i","s","c","o","u","n","t">>)>>,
                 <<T(<<"C","G","-","2","0">>), N(1000), N(10)>>,
                 <<T(<<"c","g"," ","2","5">>), N(250), N(5)>>,
                 <<T(<<"P","G"," ","(","7",")">>), T(<<"5",",","3","5","5",".","0","0">>), N(0)>> >>]

\* a wire sheet, without a discount column
RRSheet ==
    [name |-> <<"r","r"," ","w","i","r","e","s">>, readable |-> TRUE,
     rows |-> << <<T(<<"I","t","e","m"," ","D","e","s","c","r","i","p","t","i","o","n">>), T(<<"L","P">>)>>,
                 <<T(<<"W","i","r","e"," ","1",".","5">>), N(40)>>,
                 <<NaN, N(0)>> >>]

\* a gland sheet whose columns are not called Code and Price
ItemCodeSheet ==
    [name |-> <<"G","L","A","N","D","S">>, readable |-> TRUE,
     rows |-> << <<T(<<"I","t","e","m"," ","C","o","d","e">>), T(<<"L","i","s","t"," ","P","r","i","c","e">>)>>,
                 <<T(<<"G","1">>), N(75)>> >>]

\* a sheet with no header row
NotesSheet ==
    [name |-> <<"N","o","t","e","s">>, readable |-> TRUE,
     rows |-> << <<T(<<"T","e","r","m","s">>), N(30)>> >>]

\* a sheet read_excel cannot read
BrokenSheet == [name |-> <<"C","h","a","r","t">>, readable |-> FALSE, rows |-> <<>>]

\* a paired gland sheet: two size / rate column pairs
HMISheet ==
    [name |-> <<"H","M","I">>, readable |-> TRUE,
     rows |-> << <<T(<<"S","u","i","t","a","b","l","e"," ","C","a","b","l","e"," ","O","D">>), T(<<"S","i","z","e"," ","(","M","M",")">>), T(<<"R","A","T","E"," ","P","E","R"," ","P","C","S">>),
                   T(<<"D","I","S","C">>), T(<<"S","i","z","e"," ","(","M","M",")">>), T(<<"R","A","T","E"," ","P","E","R"," ","P","C","S">>)>>,
                 <<T(<<"6","-","1","2">>), N(20), N(50), N(10), N(25), N(60)>> >>]

\* a wire sheet whose header row names neither RR nor LAPP, in a sheet whose
\* name names neither
PlainWireSheet ==
    [name |-> <<"W","i","r","e","s">>, readable |-> TRUE,
     rows |-> << <<T(<<"I","t","e","m"," ","D","e","s","c","r","i","p","t","i","o","n">>), T(<<"L","P">>)>>,
                 <<T(<<"W","i","r","e"," ","2",".","5">>), N(60)>> >>]

SheetPool ==
    {CosmosSheet, RRSheet, ItemCodeSheet, NotesSheet, BrokenSheet, HMISheet,
     PlainWireSheet}

\* the sequences over S of length at most n
SeqsUpTo(S, n) == UNION {[1..k -> S] : k \in 0..n}

MissingFile == [exists |-> FALSE, sheets |-> <<>>]
Book(sheets) == [exists |-> TRUE, sheets |-> sheets]

\* the price lists of the load runs
LoadBooks == {MissingFile} \cup {Book(s) : s \in SeqsUpTo(SheetPool, MaxSheets)}

\* the price lists of the quote runs
QuoteBooks == {Book(<<CosmosSheet, RRSheet>>), Book(<<RRSheet, ItemCodeSheet>>)}

ItemPool ==
    {[name |-> <<"c","g">>, qty |-> N(5)],
     [name |-> <<"z","z">>, qty |-> N(2)],
     [name |-> <<"c","g",".","2">>, qty |-> N(1)],
     [name |-> <<"(","7">>, qty |-> N(1)],
     [name |-> <<"W","i","r","e">>, qty |-> Absent]}

DiscountPool == {Absent, N(0), N(25)}

Requests ==
    {[items |-> i, discount |-> d] :
        i \in SeqsUpTo(ItemPool, MaxItems), d \in DiscountPool}

\* the requests of the load runs
ProbeRequests ==
    {[items |-> <<>>, discount |-> Absent],
     [items |-> <<[name |-> <<"W","i","r","e">>, qty |-> N(3)]>>, discount |-> Absent],
     [items |-> <<[name |-> <<"G">>, qty |-> T(<<"2">>)]>>, discount |-> N(25)]}

AppIdle ==
    /\ data_dir = <<>>
    /\ app_catalog = <<>>
    /\ logs = <<>>
    /\ cart = <<>>
    /\ grand_tot = 0
    /\ line_tots = <<>>
    /\ total_amt = 0
    /\ ui = [op |-> "start"]

\* the cleaners and the converter have not run
ConvIdle ==
    /\ raw_val = NaN
    /\ cleaned = [op |-> "start"]
    /\ master = MissingFile
    /\ fixed = <<>>
    /\ prints = <<>>
    /\ mapping = <<>>

ApiStart ==
    /\ quotation_system = "None"
    /\ catalog = <<>>
    /\ request = NoRequest
    /\ response = NoResponse

InitQuote == workbook \in QuoteBooks /\ ApiStart /\ AppIdle /\ ConvIdle
Generate == \E req \in Requests : generate(req)
NextQuote == Generate
SpecQuote == InitQuote /\ [][NextQuote]_vars

InitLoad == workbook \in LoadBooks /\ ApiStart /\ AppIdle /\ ConvIdle
GenerateProbe == \E req \in ProbeRequests : generate(req)
NextLoad == GenerateProbe
SpecLoad == InitLoad /\ [][NextLoad]_vars

(***************************************************************************)
(* src/app.py: the helpers and the data loader.                            *)
(* List Price and Coil Length are counts of 1/100 (a cell's third and      *)
(* later decimals are not modelled).                                       *)
(***************************************************************************)
\* re.sub(r'[^\d.]', '', s), were it to keep the digits only
RECURSIVE keep_digits_only(_)
keep_digits_only(s) ==
    IF s = <<>> THEN <<>>
    ELSE (IF IsDigits(<<Head(s)>>) THEN <<Head(s)>> ELSE <<>>)
         \o keep_digits_only(Tail(s))

\* re.sub(r'[^\d.]', '', s)
RECURSIVE keep_digits_dots(_)
keep_digits_dots(s) ==
    IF s = <<>> THEN <<>>
    ELSE (IF Head(s) = "." \/ IsDigits(<<Head(s)>>) THEN <<Head(s)>> ELSE <<>>)
         \o keep_digits_dots(Tail(s))

\* float(s) raises ValueError, for s made of digits and dots
float_text_raises(s) ==
    \/ Cardinality({i \in 1..Len(s) : s[i] = "."}) > 1
    \/ ~\E i \in 1..Len(s) : s[i] # "."

\* float(s) * 100, for s made of digits and at most one dot
float_text100(s) ==
    LET dot == First({i \in 1..Len(s) : s[i] = "."})
        ip == IF dot = 0 THEN s ELSE SubSeq(s, 1, dot - 1)
        fp == IF dot = 0 THEN <<>> ELSE SubSeq(s, dot + 1, Len(s))
    IN  ParseNat(ip) * 100 + ParseNat(SubSeq(fp \o <<"0","0">>, 1, 2))

clean_price_value(val) ==
    LET s_clean == keep_digits_dots(strip(str(val)))
    IN  IF isna(val) THEN 0
        ELSE IF float_text_raises(s_clean) THEN 0
        ELSE float_text100(s_clean)

clean_coil_len(val) ==
    LET s_clean == keep_digits_dots(strip(str(val)))
    IN  IF isna(val) THEN 0
        ELSE IF float_text_raises(s_clean) THEN 0
        ELSE float_text100(s_clean)

detect_uom(sheet_name, price_col_name) ==
    LET s_up == upper(sheet_name)
        c_up == upper(price_col_name)
    IN  IF In(<<"M","T","R">>, c_up) \/ In(<<"M","E","T","E","R">>, c_up) THEN <<"M","t","r">>
        ELSE IF In(<<"P","C">>, c_up) \/ In(<<"P","I","E","C","E">>, c_up) THEN <<"P","c">>
        ELSE IF In(<<"G","L","A","N","D">>, s_up) \/ In(<<"H","M","I">>, s_up) \/ In(<<"C","O","S","M","O","S">>, s_up)
             THEN <<"P","c">>
        ELSE <<"M","t","r">>

\* pd.to_numeric(x, errors='coerce').fillna(0) of one cell
numeric_or_0(c) == IF isna(to_numeric(c)) THEN 0 ELSE to_numeric(c).n

\* the rows one sheet adds to all_dfs: the body of the inner try
app_sheet_rows(main_cat, sheet) ==
    LET raw == read_excel(sheet, 0)
        cols == [i \in 1..Len(raw.columns) |-> strip(raw.columns[i])]
        name_col == First({i \in 1..Len(cols) : cols[i] = <<"I","t","e","m"," ","D","e","s","c","r","i","p","t","i","o","n">>})
        price_col == First({i \in 1..Len(cols) : cols[i] = <<"L","i","s","t"," ","P","r","i","c","e">>})
        disc_col == First({i \in 1..Len(cols) : cols[i] = <<"S","t","a","n","d","a","r","d"," ","D","i","s","c","o","u","n","t">>})
        coil_col == First({i \in 1..Len(cols) : cols[i] = <<"C","o","i","l"," ","L","e","n","g","t","h"," ","(","M","t","r",")">>})
        uom_col == First({i \in 1..Len(cols) : cols[i] = <<"U","O","M">>})
        clean_df == [r \in 1..Len(raw.data) |->
            [Description |-> str(Cell(raw.data[r], name_col)),
             List_Price |-> clean_price_value(Cell(raw.data[r], price_col)),
             Standard_Discount |->
                 IF disc_col # 0 THEN numeric_or_0(Cell(raw.data[r], disc_col)) ELSE 0,
             Coil_Length |->
                 IF coil_col # 0 THEN clean_coil_len(Cell(raw.data[r], coil_col)) ELSE 0,
             Main_Category |-> main_cat,
             Sub_Category |-> sheet.name,
             UOM |-> IF uom_col # 0 THEN str(Cell(raw.data[r], uom_col))
                     ELSE detect_uom(sheet.name, cols[price_col])]]
    IN  IF ~sheet.readable THEN <<>>                        \* except: pass
        ELSE IF name_col = 0 \/ price_col = 0 THEN <<>>
        ELSE SelectSeq(clean_df, LAMBDA e : e.List_Price > 0)

RECURSIVE app_sheets_rows(_, _)
app_sheets_rows(main_cat, sheets) ==
    IF sheets = <<>> THEN <<>>
    ELSE app_sheet_rows(main_cat, Head(sheets))
         \o app_sheets_rows(main_cat, Tail(sheets))

\* the rows of every workbook; one that does not open adds none (except: pass)
RECURSIVE app_files_rows(_)
app_files_rows(files) ==
    IF files = <<>> THEN <<>>
    ELSE (IF Head(files).opens
          THEN app_sheets_rows(Head(files).main_cat, Head(files).sheets)
          ELSE <<>>)
         \o app_files_rows(Tail(files))

\* load_data_from_files(): [catalog, logs]
load_data_from_files(dir) ==
    IF ~dir.exists
    THEN [catalog |-> <<>>, logs |-> <<"Data folder not found">>]
    ELSE IF dir.files = <<>>
    THEN [catalog |-> <<>>, logs |-> <<"No .xlsx files found in data folder!">>]
    ELSE [catalog |-> app_files_rows(dir.files), logs |-> <<>>]

(***************************************************************************)
(* src/app.py: the cart.  One action is one run of the script, started by  *)
(* one click; the run ends with the cart preview of the main page.         *)
(* Qty is a count of 1/100, a line total a count of 1/1000000.             *)
(***************************************************************************)
\* the rows the three select boxes can show: the first row of each
\* (Main Category, Sub Category, Description)
selectable(cat) ==
    {i \in 1..Len(cat) :
        \A j \in 1..(i - 1) :
            ~(/\ cat[j].Main_Category = cat[i].Main_Category
              /\ cat[j].Sub_Category = cat[i].Sub_Category
              /\ cat[j].Description = cat[i].Description)}

\* the coil toggle is shown
coil_item(row) == row.Coil_Length > 0 /\ In(<<"M","T","R">>, upper(row.UOM))

\* the entries the run's quantity widgets can give: [mode, n, calc_qty, disp_unit]
CoilCounts == {1, 4}
MeterInputs == {250}
QtyInputs == {3}
DiscInputs == {0, 25}
MakeInputs == {<<>>, <<" ">>, <<"R","R">>}

quantity_logic(row) ==
    IF coil_item(row)
    THEN {[mode |-> "Coils", n |-> n, calc_qty |-> n * row.Coil_Length,
           disp_unit |-> <<"M","t","r">>] : n \in CoilCounts}
         \cup {[mode |-> "Meters", n |-> 0, calc_qty |-> m,
                disp_unit |-> <<"M","t","r">>] : m \in MeterInputs}
    ELSE {[mode |-> "Qty", n |-> 0, calc_qty |-> q * 100,
           disp_unit |-> row.UOM] : q \in QtyInputs}

\* the preview loop of the main page
preview_net(item) == item.List_Price * (100 - item.Discount)
\* a line total that adds the tax of 18 percent per unit (which the loop does not)
preview_tot_with_tax(item) ==
    (preview_net(item) + (preview_net(item) * 18) \div 100) * item.Qty
preview_tot(item) == preview_net(item) * item.Qty

RECURSIVE preview_grand_tot(_)
preview_grand_tot(c) ==
    IF c = <<>> THEN 0 ELSE preview_tot(Head(c)) + preview_grand_tot(Tail(c))

Preview(c) ==
    /\ grand_tot' = preview_grand_tot(c)
    /\ line_tots' = [i \in 1..Len(c) |-> preview_tot(c[i])]

\* the line the Add button appends
new_line(row, q, disc, make) ==
    [Main_Category |-> row.Main_Category, Sub_Category |-> row.Sub_Category,
     Description |-> row.Description, Make |-> make,
     Qty |-> q.calc_qty, Display_Unit |-> q.disp_unit,
     List_Price |-> row.List_Price, Discount |-> disc]

\* st.session_state['cart'].append(line)
append(c, line) == Append(c, line)

\* st.session_state['cart'].pop(i), i counted from 1
pop_first(c, i) == Tail(c)
pop(c, i) == SubSeq(c, 1, i - 1) \o SubSeq(c, i + 1, Len(c))

\* the test of the Make field, were the field optional
make_optional(make) == FALSE

\* not make.strip(): the Make field is blank
make_missing(make) == strip(make) = <<>>

\* the button "Add" of the side bar
Add ==
    /\ Len(cart) < MaxCart
    /\ \E i \in selectable(app_catalog) :
       \E make \in MakeInputs :
       \E disc \in DiscInputs \cup {app_catalog[i].Standard_Discount} :
       \E q \in quantity_logic(app_catalog[i]) :
          /\ disc \in 0..100      \* number_input("Disc %", 0.0, 100.0, ...)
          /\ app_catalog[i].Standard_Discount \in 0..100
          /\ IF make_missing(make)
             THEN /\ cart' = cart
                  /\ ui' = [op |-> "add", accepted |-> FALSE, make |-> make]
             ELSE /\ cart' = append(cart, new_line(app_catalog[i], q, disc, make))
                  /\ ui' = [op |-> "add", accepted |-> TRUE, make |-> make,
                            row |-> i, mode |-> q.mode, n |-> q.n, disc |-> disc]
          /\ Preview(cart')
    /\ total_amt' = 0
    /\ UNCHANGED <<data_dir, app_catalog, logs>>
    /\ UNCHANGED api_vars
    /\ UNCHANGED conv_vars

\* the delete button of line i of the preview
Delete ==
    /\ \E i \in 1..Len(cart) :
          /\ cart' = pop(cart, i)
          /\ ui' = [op |-> "delete", index |-> i]
          /\ Preview(cart')
    /\ total_amt' = 0
    /\ UNCHANGED <<data_dir, app_catalog, logs>>
    /\ UNCHANGED api_vars
    /\ UNCHANGED conv_vars

\* the button "Clear Cart"
ClearCart ==
    /\ cart' = <<>>
    /\ ui' = [op |-> "clear"]
    /\ Preview(cart')
    /\ total_amt' = 0
    /\ UNCHANGED <<data_dir, app_catalog, logs>>
    /\ UNCHANGED api_vars
    /\ UNCHANGED conv_vars

\* the button "Refresh Data": the cache is cleared, the next run loads again
Refresh ==
    /\ app_catalog' = load_data_from_files(data_dir).catalog
    /\ logs' = load_data_from_files(data_dir).logs
    /\ ui' = [op |-> "refresh"]
    /\ Preview(cart)
    /\ total_amt' = 0
    /\ UNCHANGED <<data_dir, cart>>
    /\ UNCHANGED api_vars
    /\ UNCHANGED conv_vars

\* fill_template_docx: the table of the document and its total row
RECURSIVE doc_total_amt(_)
doc_total_amt(c) ==
    IF c = <<>> THEN 0
    ELSE Head(c).List_Price * (100 - Head(c).Discount) * Head(c).Qty
         + doc_total_amt(Tail(c))

\* the buttons "Generate & Download" and "Save to Local Folder", with a client
\* name typed and the firm's template found
Download ==
    /\ cart # <<>>
    /\ total_amt' = doc_total_amt(cart)
    /\ ui' = [op |-> "download"]
    /\ Preview(cart)
    /\ UNCHANGED <<data_dir, app_catalog, logs, cart>>
    /\ UNCHANGED api_vars
    /\ UNCHANGED conv_vars


(***************************************************************************)
(* src/data/convert_data.py: the cleaners.  clean_price returns a count of *)
(* 1/100, clean_coil a whole number.                                       *)
(***************************************************************************)
clean_price(val) ==
    LET s_clean == keep_digits_dots(strip(str(val)))
    IN  IF isna(val) THEN 0
        ELSE IF float_text_raises(s_clean) THEN 0
        ELSE float_text100(s_clean)

\* int(float(s_clean)) truncates toward zero
clean_coil(val) ==
    LET s_clean == keep_digits_dots(strip(str(val)))
    IN  IF isna(val) THEN 0
        ELSE IF float_text_raises(s_clean) THEN 0
        ELSE float_text100(s_clean) \div 100

(***************************************************************************)
(* src/data/convert_data.py: process_master_file.  A column is named by    *)
(* its position in df.columns, 0 standing for None.                        *)
(***************************************************************************)
SCAN_ROWS == 50    \* nrows=50: the leading rows searched for the header

\* some keyword of kws is in the text s
AnyIn(kws, s) == \E k \in 1..Len(kws) : In(kws[k], s)

\* " ".join([str(x).upper() for x in row if pd.notna(x)])
conv_row_str(row) == upper(row_str(row))

has_price(rs) == AnyIn(<<<<"L","P">>, <<"P","R","I","C","E">>, <<"R","A","T","E">>>>, rs)

has_desc(rs) ==
    AnyIn(<<<<"I","T","E","M">>, <<"D","E","S","C">>, <<"C","O","D","E">>, <<"S","I","Z","E">>, <<"C","A","B","L","E">>, <<"P","A","R","T","I","C","U","L","A","R","S">>,
            <<"X","L","P","E">>, <<"K","V">>, <<"C","O","R","E">>>>, rs)

\* header_idx + 1: the first of the leading rows with a price and a
\* description keyword, 0 when there is none (header_idx = -1)
conv_header_row(sheet) ==
    First({i \in 1..Len(sheet.rows) :
              /\ i <= SCAN_ROWS
              /\ has_price(conv_row_str(sheet.rows[i]))
              /\ has_desc(conv_row_str(sheet.rows[i]))})

\* possible_desc, with the columns naming an armoured cable appended
possible_desc(cols) ==
    <<<<"I","t","e","m"," ","D","e","s","c","r","i","p","t","i","o","n">>, <<"D","e","s","c","r","i","p","t","i","o","n">>, <<"P","a","r","t","i","c","u","l","a","r","s">>, <<"C","o","d","e">>, <<"S","i","z","e">>,
      <<"I","t","e","m"," ","N","a","m","e">>, <<"X","L","P","E">>, <<"K","V">>, <<"C","O","R","E">>>>
    \o SelectSeq(cols, LAMBDA c : In(<<"C","A","B","L","E">>, upper(c)) /\ In(<<"A","R","M">>, upper(c)))

\* for candidate in possible_desc: the first column holding the first
\* candidate some column holds
RECURSIVE desc_match(_, _)
desc_match(candidates, cols) ==
    IF candidates = <<>> THEN 0
    ELSE LET match == First({i \in 1..Len(cols) :
                                In(upper(Head(candidates)), upper(cols[i]))})
         IN  IF match # 0 THEN match ELSE desc_match(Tail(candidates), cols)

\* the description column were it the first column, in sheet order, holding
\* any candidate
desc_col_sheet_order(cols) ==
    LET match == First({i \in 1..Len(cols) :
                           \E k \in 1..Len(possible_desc(cols)) :
                               In(upper(possible_desc(cols)[k]), upper(cols[i]))})
    IN  IF match = 0 THEN 1 ELSE match

desc_col(cols) ==
    LET match == desc_match(possible_desc(cols), cols)
    IN  IF match = 0 THEN 1 ELSE match      \* fallback to the first column

PRICE_KEYWORDS == <<<<"L","P">>, <<"L","i","s","t"," ","P","r","i","c","e">>, <<"R","a","t","e">>, <<"P","r","i","c","e">>, <<"A","m","o","u","n","t">>, <<"M","R","P">>>>

\* for keyword in [...]: a match naming an amount is passed over when some
\* column names a rate
RECURSIVE price_match(_, _)
price_match(keywords, cols) ==
    IF keywords = <<>> THEN 0
    ELSE LET match == First({i \in 1..Len(cols) :
                                In(upper(Head(keywords)), upper(cols[i]))})
         IN  IF /\ match # 0
                /\ In(<<"A","M","O","U","N","T">>, upper(cols[match]))
                /\ \E x \in 1..Len(cols) : In(<<"R","A","T","E">>, upper(cols[x]))
             THEN price_match(Tail(keywords), cols)
             ELSE IF match # 0 THEN match
             ELSE price_match(Tail(keywords), cols)

price_col(cols) ==
    LET per == First({i \in 1..Len(cols) :
                         \/ In(<<"P","E","R"," ","M","T","R">>, upper(cols[i]))
                         \/ In(<<"P","E","R"," ","M","E","T","E","R">>, upper(cols[i]))})
    IN  IF per # 0 THEN per ELSE price_match(PRICE_KEYWORDS, cols)

disc_col(cols) ==
    First({i \in 1..Len(cols) : In(<<"D","I","S","C">>, upper(cols[i])) \/ In(<<"O","F","F">>, upper(cols[i]))})

coil_col(cols) ==
    First({i \in 1..Len(cols) :
              /\ In(<<"C","O","I","L">>, upper(cols[i]))
              /\ (In(<<"L","E","N">>, upper(cols[i])) \/ In(<<"M","T","R">>, upper(cols[i])))
              /\ ~In(<<"Q","T","Y">>, upper(cols[i]))})

\* the unit, were the sheet's name looked at before the price column's name
conv_uom_sheet_first(sheet_name, price_col_name) ==
    LET s_up == upper(sheet_name)
        p_up == upper(price_col_name)
    IN  IF In(<<"G","L","A","N","D">>, s_up) \/ In(<<"H","M","I">>, s_up) \/ In(<<"C","O","S","M","O","S">>, s_up) THEN <<"P","c">>
        ELSE IF In(<<"M","T","R">>, p_up) \/ In(<<"M","E","T","E","R">>, p_up) THEN <<"M","t","r">>
        ELSE IF In(<<"P","C">>, p_up) \/ In(<<"P","I","E","C","E">>, p_up) THEN <<"P","c">>
        ELSE <<"M","t","r">>

\* the unit inferred from the price column's name and the sheet's name
conv_uom(sheet_name, price_col_name) ==
    LET s_up == upper(sheet_name)
        p_up == upper(price_col_name)
    IN  IF In(<<"M","T","R">>, p_up) \/ In(<<"M","E","T","E","R">>, p_up) THEN <<"M","t","r">>
        ELSE IF In(<<"P","C">>, p_up) \/ In(<<"P","I","E","C","E">>, p_up) THEN <<"P","c">>
        ELSE IF In(<<"G","L","A","N","D">>, s_up) \/ In(<<"H","M","I">>, s_up) \/ In(<<"C","O","S","M","O","S">>, s_up)
             THEN <<"P","c">>
        ELSE <<"M","t","r">>

\* sheet_name[:30].replace("/", "-")
safe_name(sheet_name) ==
    [i \in 1..(IF Len(sheet_name) < 30 THEN Len(sheet_name) ELSE 30) |->
        IF sheet_name[i] = "/" THEN "-" ELSE sheet_name[i]]

\* the columns no sheet was mapped to
NoMapping(sheet) ==
    [sheet |-> sheet.name, header_idx |-> -1, columns |-> <<>>,
     desc_col |-> 0, price_col |-> 0, uom |-> <<>>]

\* one pass of the loop over the sheets: the outcome printed, the rows kept
\* and the values of header_idx, desc_col, price_col and uom
conv_sheet(sheet) ==
    LET hdr == conv_header_row(sheet)
        df == read_excel(sheet, hdr - 1)
        cols == [i \in 1..Len(df.columns) |-> strip(df.columns[i])]
        d == desc_col(cols)
        p == price_col(cols)
        dc == disc_col(cols)
        cc == coil_col(cols)
        uom == conv_uom(sheet.name, cols[p])
        clean_df == [r \in 1..Len(df.data) |->
            [Item_Description |-> str(Cell(df.data[r], d)),
             List_Price |-> clean_price(Cell(df.data[r], p)),
             Standard_Discount |->
                 IF dc # 0 THEN numeric_or_0(Cell(df.data[r], dc)) ELSE 0,
             Coil_Length |-> IF cc # 0 THEN clean_coil(Cell(df.data[r], cc)) ELSE 0,
             UOM |-> uom]]
        kept == SelectSeq(clean_df,
                          LAMBDA e : e.List_Price > 0 /\ e.Item_Description # <<"n","a","n">>)
    IN  IF ~sheet.readable
        THEN [outcome |-> "Error reading sheet", rows |-> <<>>, map |-> NoMapping(sheet)]
        ELSE IF hdr = 0
        THEN [outcome |-> "Skipping (No valid header found)", rows |-> <<>>,
              map |-> NoMapping(sheet)]
        ELSE IF cols[d] = <<>> \/ p = 0
        THEN [outcome |-> "Skipping (Columns missing)", rows |-> <<>>,
              map |-> [sheet |-> sheet.name, header_idx |-> hdr - 1, columns |-> cols,
                       desc_col |-> d, price_col |-> p, uom |-> <<>>]]
        ELSE [outcome |-> "Mapped", rows |-> kept,
              map |-> [sheet |-> sheet.name, header_idx |-> hdr - 1, columns |-> cols,
                       desc_col |-> d, price_col |-> p, uom |-> uom]]

\* the sheets of all_clean_data, as they are written to the output file
RECURSIVE all_clean_data(_)
all_clean_data(sheets) ==
    IF sheets = <<>> THEN <<>>
    ELSE (IF conv_sheet(Head(sheets)).outcome = "Mapped"
          THEN <<[sheet_name |-> safe_name(Head(sheets).name),
                  rows |-> conv_sheet(Head(sheets)).rows]>>
          ELSE <<>>)
         \o all_clean_data(Tail(sheets))

\* process_master_file(): the script, from the search of the input file to
\* the writing of the output file
ProcessMasterFile ==
    /\ IF ~master.exists \/ ~master.opens
       THEN UNCHANGED <<fixed, prints, mapping>>
       ELSE \E done \in {[s \in 1..Len(master.sheets) |-> conv_sheet(master.sheets[s])]} :
               /\ prints' = [s \in 1..Len(done) |->
                               [sheet |-> master.sheets[s].name,
                                line |-> done[s].outcome,
                                items |-> Len(done[s].rows)]]
               /\ mapping' = [s \in 1..Len(done) |-> done[s].map]
               /\ fixed' = all_clean_data(master.sheets)
    /\ UNCHANGED <<raw_val, cleaned, master>>
    /\ UNCHANGED api_vars
    /\ UNCHANGED app_vars
(***************************************************************************)
(* The inputs of the app runs: the workbooks of the data folder.  The      *)
(* prices are small, to keep every total of a cart within 32 bits.         *)
(***************************************************************************)
WiresSheet ==
    [name |-> <<"W","i","r","e","s">>, readable |-> TRUE,
     rows |-> << <<T(<<"I","t","e","m"," ","D","e","s","c","r","i","p","t","i","o","n">>), T(<<"L","i","s","t"," ","P","r","i","c","e">>), T(<<"S","t","a","n","d","a","r","d"," ","D","i","s","c","o","u","n","t">>),
                   T(<<"C","o","i","l"," ","L","e","n","g","t","h"," ","(","M","t","r",")">>), T(<<"U","O","M">>)>>,
                 <<T(<<"F","R"," ","1",".","5">>), T(<<"1",".","5","0">>), N(10), T(<<"9","0"," ","M","t","r">>), T(<<"M","t","r">>)>>,
                 <<NaN, N(15), NaN, NaN, T(<<"M","t","r">>)>>,
                 <<T(<<"O","l","d">>), N(0), N(5), N(90), T(<<"M","t","r">>)>> >>]

GlandSheet ==
    [name |-> <<"H","M","I"," ","G","l","a","n","d","s">>, readable |-> TRUE,
     rows |-> << <<T(<<"I","t","e","m"," ","D","e","s","c","r","i","p","t","i","o","n">>), T(<<"L","i","s","t"," ","P","r","i","c","e"," ">>)>>,
                 <<T(<<"P","G"," ","7">>), T(<<"R","s"," ","1","2",".","5","0">>)>>,
                 <<T(<<"P","G"," ","9">>), T(<<"n","/","a">>)>> >>]

RateSheet ==
    [name |-> <<"R","a","t","e","s">>, readable |-> TRUE,
     rows |-> << <<T(<<"I","t","e","m">>), T(<<"R","a","t","e">>)>>, <<T(<<"X">>), N(5)>> >>]

ChartSheet == [name |-> <<"C","h","a","r","t">>, readable |-> FALSE, rows |-> <<>>]

File(main_cat, sheets) == [main_cat |-> main_cat, opens |-> TRUE, sheets |-> sheets]
LockedFile == [main_cat |-> <<"L","o","c","k","e","d">>, opens |-> FALSE, sheets |-> <<>>]

DataDirs ==
    {[exists |-> TRUE, files |-> <<File(<<"C","a","b","l","e","s">>, <<WiresSheet, GlandSheet>>)>>],
     [exists |-> TRUE,
      files |-> <<LockedFile, File(<<"M","i","s","c">>, <<RateSheet, ChartSheet, GlandSheet>>),
                  File(<<"C","a","b","l","e","s">>, <<WiresSheet>>)>>],
     [exists |-> TRUE, files |-> <<>>],
     [exists |-> FALSE, files |-> <<>>]}

InitApp ==
    /\ data_dir \in DataDirs
    /\ app_catalog = load_data_from_files(data_dir).catalog
    /\ logs = load_data_from_files(data_dir).logs
    /\ cart = <<>>
    /\ grand_tot = 0
    /\ line_tots = <<>>
    /\ total_amt = 0
    /\ ui = [op |-> "start"]
    /\ workbook = MissingFile
    /\ ApiStart
    /\ ConvIdle

NextApp == Add \/ Delete \/ ClearCart \/ Refresh \/ Download
SpecApp == InitApp /\ [][NextApp]_vars


(***************************************************************************)
(* The cleaner runs: every cleaner of the repository applied to one raw    *)
(* cell value.                                                             *)
(***************************************************************************)
MaxText == 3       \* characters in a generated raw text cell

\* the characters of the generated cells: digits, the decimal point, a
\* separator, a letter and a blank
CellChars == {"5", "0", ".", ",", "R", " "}

RawCells ==
    {NaN, N(0), N(90), N(5355)}
    \cup {T(s) : s \in SeqsUpTo(CellChars, MaxText)}
    \cup {T(<<"5",",","3","5","5",".","0","0">>), T(<<"9","0",".","5"," ","M","t","r">>), T(<<"R","s","."," ","1","2",".","5","0">>), T(<<"1",".","2",".","3">>), T(<<"n","/","a">>)}

InitClean ==
    /\ raw_val \in RawCells
    /\ cleaned = [op |-> "start"]
    /\ master = MissingFile
    /\ fixed = <<>>
    /\ prints = <<>>
    /\ mapping = <<>>
    /\ workbook = MissingFile
    /\ ApiStart
    /\ AppIdle

\* one cell goes through the four cleaners
Clean ==
    /\ cleaned.op = "start"
    /\ cleaned' = [op |-> "clean",
                   clean_price_value |-> clean_price_value(raw_val),
                   clean_coil_len |-> clean_coil_len(raw_val),
                   clean_price |-> clean_price(raw_val),
                   clean_coil |-> clean_coil(raw_val)]
    /\ UNCHANGED <<raw_val, master, fixed, prints, mapping>>
    /\ UNCHANGED api_vars
    /\ UNCHANGED app_vars

NextClean == Clean
SpecClean == InitClean /\ [][NextClean]_vars

(***************************************************************************)
(* The converter runs: process_master_file on a price list whose sheets    *)
(* have a title row, a row of column headers and two rows of data.         *)
(***************************************************************************)
MaxCols == 3       \* columns of a generated sheet

HeaderPool ==
    {<<"S","r">>, <<"I","t","e","m">>, <<"S","i","z","e">>, <<"D","e","s","c","r","i","p","t","i","o","n">>, <<"L","P">>, <<"L","P"," ","A","m","o","u","n","t">>, <<"R","a","t","e","/","P","c">>,
     <<"P","r","i","c","e"," ","P","e","r"," ","M","t","r">>}

SheetNames == {<<"C","a","b","l","e","s">>, <<"H","M","I"," ","G","l","a","n","d">>}

\* a sheet named name whose columns are headed by headers
ConvSheet(name, headers) ==
    [name |-> name, readable |-> TRUE,
     rows |-> << <<T(<<"P","r","i","c","e"," ","l","i","s","t">>)>>,
                 [i \in 1..Len(headers) |-> T(headers[i])],
                 [i \in 1..Len(headers) |-> IF i = 1 THEN T(<<"A"," ","1">>) ELSE N(10 * i)],
                 [i \in 1..Len(headers) |-> IF i = 1 THEN NaN ELSE N(10 * i)] >>]

\* a sheet with two rows that qualify as the header
TwoHeaderSheet ==
    [name |-> <<"C","a","b","l","e","s">>, readable |-> TRUE,
     rows |-> << <<T(<<"S","i","z","e">>), T(<<"R","a","t","e">>)>>,
                 <<T(<<"D","e","s","c","r","i","p","t","i","o","n">>), T(<<"L","P">>)>>,
                 <<T(<<"A"," ","1">>), N(10)>> >>]

UnreadableSheet == [name |-> <<"C","h","a","r","t">>, readable |-> FALSE, rows |-> <<>>]

MasterFile(sheets) == [exists |-> TRUE, opens |-> TRUE, sheets |-> sheets]

MasterBooks ==
    {[exists |-> FALSE, opens |-> FALSE, sheets |-> <<>>],
     [exists |-> TRUE, opens |-> FALSE, sheets |-> <<>>],
     MasterFile(<<UnreadableSheet, TwoHeaderSheet>>)}
    \cup {MasterFile(<<ConvSheet(n, h)>>) :
             n \in SheetNames, h \in SeqsUpTo(HeaderPool, MaxCols) \ {<<>>}}

InitConv ==
    /\ master \in MasterBooks
    /\ fixed = <<>>
    /\ prints = <<>>
    /\ mapping = <<>>
    /\ raw_val = NaN
    /\ cleaned = [op |-> "start"]
    /\ workbook = MissingFile
    /\ ApiStart
    /\ AppIdle

NextConv == ProcessMasterFile
SpecConv == InitConv /\ [][NextConv]_vars
(***************************************************************************)
(* The claims.                                                             *)
(***************************************************************************)
\* the sum of a sequence of numbers
RECURSIVE SumSeq(_)
SumSeq(ns) == IF ns = <<>> THEN 0 ELSE Head(ns) + SumSeq(Tail(ns))

Abs(x) == IF x < 0 THEN -x ELSE x

\* a line of a quote that prices a catalog entry (not a NOT FOUND placeholder)
Priced(line) == "Qty" \in DOMAIN line

TaxableAmount(c) ==
    SumSeq([i \in 1..Len(c) |-> c[i].List_Price * (100 - c[i].Discount) * c[i].Qty])

\* the tax amount of a cart at the flat rate of 18 percent: the sum over its
\* lines of (tax per unit) * quantity
TaxAmount(c) ==
    SumSeq([i \in 1..Len(c) |->
               ((c[i].List_Price * (100 - c[i].Discount) * 18) \div 100) * c[i].Qty])

\* C2 as claimed: the grand total reported for a cart is taxableAmount +
\* taxAmount, it includes the tax of every line
C2_GrandTotalIncludesTax ==
    grand_tot = TaxableAmount(cart) + TaxAmount(cart)

\* C2 as amended: the grand total reported for a cart, in the preview and in
\* the document, is the taxable amount: the sum over the lines of
\* netRate * quantity, without tax; a line's total is netRate * quantity
C2_GrandTotalIsTaxable ==
    /\ grand_tot = TaxableAmount(cart)
    /\ Len(line_tots) = Len(cart)
    /\ \A i \in 1..Len(cart) :
          line_tots[i] = cart[i].List_Price * (100 - cart[i].Discount) * cart[i].Qty
    /\ ui.op = "download" => total_amt = TaxableAmount(cart)

C2_Witness ==
    /\ Len(cart) = 2
    /\ ui.op = "download"
    /\ total_amt > 0
    /\ TaxAmount(cart) > 0

\* C3: the discount used for a line is the override whenever one is supplied
\* (0 included), the entry's standard discount otherwise
C3_OverrideUsed ==
    response.kind = "quote" =>
        \A i \in 1..Len(response.results) :
            Priced(response.results[i]) =>
                IF request.discount.t = "n"
                THEN response.results[i].Discount = request.discount
                ELSE \E k \in 1..Len(catalog) :
                        /\ catalog[k].Item_Name = response.results[i].Description
                        /\ catalog[k].Standard_Discount = response.results[i].Discount

\* name is, ignoring case, a substring of desc
SubstringNoCase(name, desc) ==
    In([i \in 1..Len(name) |-> lower_char(name[i])],
       [i \in 1..Len(desc) |-> lower_char(desc[i])])

\* the catalog rows whose description contains name
Containing(name) ==
    {k \in 1..Len(catalog) : SubstringNoCase(name, str(catalog[k].Item_Name))}

Handled == response.kind \in {"quote", "exception"}

\* C4: an item whose name matches no description gives the placeholder
\* "NOT FOUND: <name>" with total 0, no error is raised, and every other item
\* is priced and returned at its position
C4_NotFoundPlaceholder ==
    Handled =>
        /\ response.kind = "quote"
        /\ Len(response.results) = Len(request.items)
        /\ \A i \in 1..Len(request.items) :
              IF Containing(request.items[i].name) = {}
              THEN response.results[i] =
                       [Description |-> T(<<"N","O","T"," ","F","O","U","N","D",":"," ">> \o request.items[i].name),
                        Total |-> N(0)]
              ELSE Priced(response.results[i])

\* C5: a name is resolved by case-insensitive substring match against the
\* descriptions: a line is priced exactly when some description contains the
\* name, and of several such entries the first in catalog order is priced
C5_SubstringFirstMatch ==
    response.kind = "quote" =>
        \A i \in 1..Len(request.items) :
            LET found == Containing(request.items[i].name)
            IN  /\ Priced(response.results[i]) <=> found # {}
                /\ found # {} =>
                       response.results[i].Description =
                           catalog[CHOOSE k \in found : \A j \in found : k <= j].Item_Name

\* C6: a request whose quantity is missing, not a number or not positive, or
\* whose discount is outside [0,100], never yields a priced line
C6_InvalidInputRejected ==
    response.kind = "quote" =>
        \A i \in 1..Len(response.results) :
            Priced(response.results[i]) =>
                /\ request.items[i].qty.t = "n"
                /\ request.items[i].qty.n > 0
                /\ request.discount.t = "n" => request.discount.n \in 0..100

\* C7: a request of n coils of an entry with a coil length stores a line with
\* quantity n * coilLength and a display unit that names the coil count
C7_CoilAnnotation ==
    (ui.op = "add" /\ ui.accepted /\ ui.mode = "Coils") =>
        /\ cart[Len(cart)].Qty = ui.n * app_catalog[ui.row].Coil_Length
        /\ In(NatStr(ui.n) \o <<" ","C","o","i","l","s">>, cart[Len(cart)].Display_Unit)

\* C8: the totals are those of the current cart, and adding a line then
\* removing that line gives back the cart and the totals of before the add
C8_AddThenRemoveRestores ==
    [][/\ grand_tot' = TaxableAmount(cart')
       /\ (ui'.op = "add" /\ ui'.accepted) =>
              /\ Len(cart') = Len(cart) + 1
              /\ pop(cart', Len(cart')) = cart
              /\ preview_grand_tot(pop(cart', Len(cart'))) = grand_tot]_vars

C8_Witness ==
    /\ ui.op = "add"
    /\ ui.accepted
    /\ Len(cart) = 2
    /\ cart[1] # cart[2]

\* C9: every entry of the catalog a build produces has listPrice > 0 and a
\* description that is neither empty nor the text "nan"
C9_CatalogEntriesValid ==
    \A i \in 1..Len(app_catalog) :
        /\ app_catalog[i].List_Price > 0
        /\ app_catalog[i].Description \notin {<<>>, <<"n","a","n">>}

\* the entries sheet alone gives, when processing it raises nothing
SheetEntries(sheet) == dropna_List_Price(process_sheet(<<>>, sheet).catalog)

\* C10: a sheet that fails adds nothing and never aborts the build: the
\* entries of every other sheet are in the catalog
C10_BadSheetSkipped ==
    (quotation_system # "None" /\ workbook.exists) =>
        \A s \in 1..Len(workbook.sheets) :
            ~process_sheet(<<>>, workbook.sheets[s]).raised =>
                \A j \in 1..Len(SheetEntries(workbook.sheets[s])) :
                    \E k \in 1..Len(catalog) :
                        catalog[k] = SheetEntries(workbook.sheets[s])[j]


\* C11: pricing is pure with respect to the catalog: once the catalog is
\* loaded no request changes it, and the answer to a request is the value of
\* get_quote on that catalog, the request's items and its discount, whatever
\* requests came before
C11_PricingIsPure ==
    [][/\ quotation_system # "None" => catalog' = catalog
       /\ response'.kind \in {"quote", "exception"} =>
              LET q == get_quote(catalog', request'.items, request'.discount)
              IN  IF q.raised THEN response'.kind = "exception"
                  ELSE response' = [kind |-> "quote", results |-> q.results]]_vars

\* C11: a quote of a loaded catalog in which the same item was priced twice,
\* with the same line both times
C11_Witness ==
    /\ response.kind = "quote"
    /\ catalog # <<>>
    /\ Len(response.results) = 2
    /\ request.items[1] = request.items[2]
    /\ Priced(response.results[1])
    /\ response.results[1] = response.results[2]

\* the characters of a raw cell's text that are digits or decimal points
KeptText(c) ==
    SelectSeq(strip(str(c)), LAMBDA ch : ch = "." \/ ch \in {Digits[i] : i \in 1..10})

\* a text of digits and points that is a number: at most one point and at
\* least one digit
IsNumberText(s) ==
    /\ Cardinality({i \in 1..Len(s) : s[i] = "."}) <= 1
    /\ \E i \in 1..Len(s) : s[i] # "."

\* the value, in 1/100, of the number a text of digits and at most one point
\* writes (its third and later decimals dropped)
NumberText100(s) ==
    LET point == IF \E i \in 1..Len(s) : s[i] = "."
                 THEN CHOOSE i \in 1..Len(s) : s[i] = "." ELSE Len(s) + 1
        whole == SubSeq(s, 1, point - 1)
        cents == SubSeq(SubSeq(s, point + 1, Len(s)) \o <<"0","0">>, 1, 2)
    IN  ParseNat(whole \o cents)

\* C12: the cleaners are total: for every raw cell each of them returns a
\* number; 0 for a missing cell and when the digits and points left of the
\* text are not a number, the number they write otherwise ("5,355.00" gives
\* 5355.00)
C12_CleanersTotal ==
    cleaned.op = "clean" =>
        LET kept == KeptText(raw_val)
            expected == IF isna(raw_val) \/ ~IsNumberText(kept) THEN 0
                        ELSE NumberText100(kept)
        IN  /\ cleaned.clean_price_value = expected
            /\ cleaned.clean_price = expected
            /\ cleaned.clean_coil_len = expected
            /\ cleaned.clean_coil \in Nat
            /\ cleaned.clean_coil = expected \div 100
            /\ raw_val = T(<<"5",",","3","5","5",".","0","0">>) =>
                   cleaned.clean_price_value = 535500

\* C12: a garbage text with several decimal points went through the cleaners
C12_Witness ==
    /\ cleaned.op = "clean"
    /\ raw_val = T(<<"1",".","2",".","3">>)
    /\ cleaned.clean_price_value = 0
    /\ cleaned.clean_coil = 0

\* C20: the coil length every cleaner gives is a non-negative whole number,
\* the text's number truncated ("90.5 Mtr" gives 90)
C20_CoilLengthWhole ==
    cleaned.op = "clean" =>
        /\ cleaned.clean_coil_len >= 0
        /\ cleaned.clean_coil_len % 100 = 0
        /\ cleaned.clean_coil_len = cleaned.clean_coil * 100

\* the sheets a build of the folder dir visits
SheetsVisited(dir) == SumSeq([f \in 1..Len(dir.files) |-> Len(dir.files[f].sheets)])

\* C13: a build that visits sheets appends one diagnostic line for every sheet
\* it visits, so no sheet is skipped silently
C13_OneDiagnosticPerSheet ==
    (data_dir.exists /\ data_dir.files # <<>>) =>
        Len(logs) = SheetsVisited(data_dir)

\* a text with no character other than blanks
Blank(s) == \A k \in 1..Len(s) : s[k] = " "

\* C14 as claimed: an add with an empty make is accepted and appends a line
\* whose make is the text supplied
C14_EmptyMakeAccepted ==
    (ui.op = "add" /\ ui.make = <<>>) =>
        /\ ui.accepted
        /\ cart[Len(cart)].Make = ui.make

\* C14 as amended: the make is mandatory: an add whose make is empty or blank
\* is refused and leaves the cart as it was; an add with any other make
\* appends one line whose make is the text supplied, unchanged
C14_MakeMandatory ==
    [][ui'.op = "add" =>
          IF Blank(ui'.make)
          THEN ~ui'.accepted /\ cart' = cart
          ELSE /\ ui'.accepted
               /\ Len(cart') = Len(cart) + 1
               /\ SubSeq(cart', 1, Len(cart)) = cart
               /\ cart'[Len(cart')].Make = ui'.make]_vars

\* C14: an add with an empty make was refused on a cart that holds a line
C14_Witness ==
    /\ ui.op = "add"
    /\ ui.make = <<>>
    /\ ~ui.accepted
    /\ Len(cart) = 1

\* the sheets of the converter's run on which a header row was found
Headed == {s \in 1..Len(mapping) : mapping[s].header_idx >= 0}

\* C15: the column taken as the unit price never has a header containing
\* "AMOUNT", and a sheet with no unit price column is skipped with no entries
C15_UnitPriceNeverAmount ==
    \A s \in Headed :
        IF mapping[s].price_col # 0
        THEN ~In(<<"A","M","O","U","N","T">>,
                 upper(mapping[s].columns[mapping[s].price_col]))
        ELSE /\ prints[s].line = "Skipping (Columns missing)"
             /\ prints[s].items = 0

\* the first of the leading rows of a sheet that contains a price keyword and
\* a description keyword, counted from 0; -1 when there is none
FirstKeywordRow(sheet) ==
    LET rows == {i \in 0..(Len(sheet.rows) - 1) :
                    /\ i < SCAN_ROWS
                    /\ has_price(upper(row_str(sheet.rows[i + 1])))
                    /\ has_desc(upper(row_str(sheet.rows[i + 1])))}
    IN  IF rows = {} THEN -1 ELSE CHOOSE i \in rows : \A j \in rows : i <= j

\* C16: the header row located in a sheet is the first of its leading rows
\* that contains a price keyword and a description keyword; a sheet with no
\* such row gives no entries
C16_FirstKeywordRowIsHeader ==
    (quotation_system # "None" /\ workbook.exists) =>
        \A s \in 1..Len(workbook.sheets) :
            workbook.sheets[s].readable =>
                header_row_idx(workbook.sheets[s]) = FirstKeywordRow(workbook.sheets[s])

\* C17 as claimed: the item name column is the first column, in sheet order,
\* whose header contains any description keyword, the first column when no
\* header contains one
C17_FirstColumnWithKeyword ==
    \A s \in Headed :
        LET cols == mapping[s].columns
            with == {i \in 1..Len(cols) : AnyIn([k \in 1..Len(possible_desc(cols)) |->
                                                    upper(possible_desc(cols)[k])],
                                                upper(cols[i]))}
        IN  mapping[s].desc_col =
                IF with = {} THEN 1 ELSE CHOOSE i \in with : \A j \in with : i <= j

\* C17 as amended: the keywords are tried in the order of possible_desc; the
\* first keyword some header contains decides, and the item name column is
\* the first column, in sheet order, containing that keyword; the first
\* column when no header contains any keyword
C17_KeywordPriority ==
    \A s \in Headed :
        LET cols == mapping[s].columns
            d == mapping[s].desc_col
            kws == possible_desc(cols)
            Has(k, i) == In(upper(kws[k]), upper(cols[i]))
        IN  IF \E k \in 1..Len(kws) : \E i \in 1..Len(cols) : Has(k, i)
            THEN \E k \in 1..Len(kws) :
                    /\ Has(k, d)
                    /\ \A i \in 1..(d - 1) : ~Has(k, i)
                    /\ \A k2 \in 1..(k - 1) : \A i \in 1..Len(cols) : ~Has(k2, i)
            ELSE d = 1

\* C17: a sheet headed Size, Description was mapped: the item name column is
\* Description, the second column
C17_Witness ==
    \E s \in Headed :
        /\ Len(mapping[s].columns) >= 2
        /\ mapping[s].columns[1] = <<"S","i","z","e">>
        /\ mapping[s].columns[2] = <<"D","e","s","c","r","i","p","t","i","o","n">>
        /\ mapping[s].desc_col = 2

\* C18: with no UOM column the unit is "Mtr" if the price column's name
\* contains MTR or METER, else "Pc" if it contains PC or PIECE, else "Pc" if
\* the sheet's name contains GLAND, HMI or COSMOS, else "Mtr"; the converter
\* and the application's detect_uom give the same unit
C18_UomRulesInOrder ==
    \A s \in 1..Len(mapping) :
        prints[s].line = "Mapped" =>
            LET p_up == upper(mapping[s].columns[mapping[s].price_col])
                s_up == upper(mapping[s].sheet)
                Cue(kw, text) == In(kw, text)
                unit == IF Cue(<<"M","T","R">>, p_up) \/ Cue(<<"M","E","T","E","R">>, p_up)
                            THEN <<"M","t","r">>
                        ELSE IF Cue(<<"P","C">>, p_up) \/ Cue(<<"P","I","E","C","E">>, p_up)
                            THEN <<"P","c">>
                        ELSE IF \/ Cue(<<"G","L","A","N","D">>, s_up)
                                \/ Cue(<<"H","M","I">>, s_up)
                                \/ Cue(<<"C","O","S","M","O","S">>, s_up)
                            THEN <<"P","c">>
                        ELSE <<"M","t","r">>
            IN  /\ mapping[s].uom = unit
                /\ detect_uom(mapping[s].sheet,
                              mapping[s].columns[mapping[s].price_col]) = unit

\* C18: a sheet whose name names a gland and whose price column names the
\* meter was mapped, with the unit "Mtr": the earlier rule won
C18_Witness ==
    \E s \in 1..Len(mapping) :
        /\ prints[s].line = "Mapped"
        /\ In(<<"H","M","I">>, upper(mapping[s].sheet))
        /\ In(<<"M","T","R">>, upper(mapping[s].columns[mapping[s].price_col]))
        /\ mapping[s].uom = <<"M","t","r">>

\* the data rows of a paired gland sheet with a second size / rate pair, 0
\* for any other sheet
PairedRows(sheet) ==
    IF ~sheet.readable \/ header_row_idx(sheet) = -1 THEN 0
    ELSE LET df == read_excel(sheet, header_row_idx(sheet))
         IN  IF /\ row_category(row_str(sheet.rows[header_row_idx(sheet) + 1]),
                                sheet.name) = "HMI Glands"
                /\ \E i \in 1..Len(df.columns) :
                      In(<<"S","i","z","e"," ","(","M","M",")",".","1">>, df.columns[i])
             THEN Len(df.data) ELSE 0

\* C19: every row of a paired gland sheet gives two catalog entries, one for
\* each size / rate pair
C19_DualVariantTwoEntries ==
    (quotation_system # "None" /\ response.kind # "load_failed") =>
        \A s \in 1..Len(workbook.sheets) :
            Cardinality({k \in 1..Len(catalog) : catalog[k].Category = "HMI Glands"})
                >= 2 * PairedRows(workbook.sheets[s])

\* C21: a quote is answered only from a catalog whose load succeeded: after a
\* failed load no request is priced against the catalog the failure left
C21_QuoteOnlyAfterLoad ==
    response.kind \in {"quote", "exception"} => load_data(workbook).success
====
